---- MODULE Spec2Model ----
(***************************************************************************)
(* A model of the TODO HTTP service of main.go: the process life cycle     *)
(* (init, main, signal handling, graceful shutdown), the five request      *)
(* handlers (homeHandler, fetchTodos, createTodo, updateTodo, deleteTodo)  *)
(* running concurrently in handler goroutines, and the MongoDB collection  *)
(* they share.  Every store call (Find, InsertOne, UpdateOne, DeleteOne)   *)
(* is one atomic step on the collection; a handler is three steps: accept, *)
(* decode and validate; the store call; writing the response.              *)
(***************************************************************************)
EXTENDS Integers, Sequences, FiniteSets, TLC

\* ---------------------------------------------------------------- bounds

\* Handler goroutines that can be in flight at the same time.
MaxInflight == 2
\* ObjectIDs the process generates during one run.
MaxCreates == 2
\* Hex digits of an identifier (24 in the driver, scaled down).
OidHexLen == 2
\* The value of the first ObjectID generated (the driver derives it from the
\* time and a per-process random value).
FirstOid == 10

\* ------------------------------------------------------- program constants

StatusOK == 200
StatusCreated == 201
StatusBadRequest == 400
StatusInternalServerError == 500

\* ------------------------------------------------------------ identifiers

HexLower == <<"0","1","2","3","4","5","6","7","8","9","a","b","c","d","e","f">>
HexUpper == <<"0","1","2","3","4","5","6","7","8","9","A","B","C","D","E","F">>

RECURSIVE Pow16(_)
Pow16(n) == IF n = 0 THEN 1 ELSE 16 * Pow16(n - 1)

\* The value of one hex digit, upper or lower case; -1 for any other character.
NibbleOf(c) ==
    IF \E i \in 1..16 : HexLower[i] = c
    THEN (CHOOSE i \in 1..16 : HexLower[i] = c) - 1
    ELSE IF \E i \in 1..16 : HexUpper[i] = c
         THEN (CHOOSE i \in 1..16 : HexUpper[i] = c) - 1
         ELSE -1

\* t.ID.Hex(): the lower-case hex string of an ObjectID.
Hex(oid) ==
    [i \in 1..OidHexLen |-> HexLower[((oid \div Pow16(OidHexLen - i)) % 16) + 1]]

IsSpace(c) == c \in {" ", "\t", "\n"}

RECURSIVE TrimLeft(_)
TrimLeft(s) ==
    IF s # <<>> /\ IsSpace(Head(s)) THEN TrimLeft(Tail(s)) ELSE s

RECURSIVE TrimRight(_)
TrimRight(s) ==
    IF s # <<>> /\ IsSpace(s[Len(s)])
    THEN TrimRight(SubSeq(s, 1, Len(s) - 1))
    ELSE s

\* strings.TrimSpace
TrimSpace(s) == TrimRight(TrimLeft(s))

RECURSIVE HexValue(_)
HexValue(s) ==
    IF s = <<>> THEN 0
    ELSE HexValue(SubSeq(s, 1, Len(s) - 1)) * 16 + NibbleOf(s[Len(s)])

\* A variant that does not check the length.
ObjectIDFromHexLenient(s) ==
    IF \E i \in 1..Len(s) : NibbleOf(s[i]) = -1
    THEN [err |-> TRUE, oid |-> 0]
    ELSE [err |-> FALSE, oid |-> HexValue(s) % Pow16(OidHexLen)]

\* primitive.ObjectIDFromHex: an error unless the string has exactly the
\* identifier's length and only hex digits (either case).
ObjectIDFromHex(s) ==
    IF Len(s) # OidHexLen \/ \E i \in 1..Len(s) : NibbleOf(s[i]) = -1
    THEN [err |-> TRUE, oid |-> 0]
    ELSE [err |-> FALSE, oid |-> HexValue(s)]

\* primitive.NewObjectID(): the n-th identifier the process generates.
NewObjectID(n) == FirstOid + n

\* The identifiers a run can generate.
Oids == {NewObjectID(n) : n \in 0..(MaxCreates - 1)}

Upper(s) == [i \in 1..Len(s) |-> IF NibbleOf(s[i]) >= 0 THEN HexUpper[NibbleOf(s[i]) + 1] ELSE s[i]]

\* The {id} path parameters a client sends: every identifier in lower case as
\* the service prints it, the first one also in upper case between spaces, and
\* strings that are no identifier: too short, not hex.
Padded(oid) == <<" ">> \o Upper(Hex(oid)) \o <<" ">>

TooShort == SubSeq(Hex(FirstOid), 1, OidHexLen - 1)

NotHex == [i \in 1..OidHexLen |-> "g"]

PathIds == {Hex(o) : o \in Oids} \cup {Padded(FirstOid), TooShort, NotHex}

\* ------------------------------------------------------------------ JSON

\* A request body: not JSON at all, or an object in which each of the fields
\* id, title, completed is absent (<<>>) or present (<<value>>).
MalformedBody == [wf |-> FALSE, id |-> <<>>, title |-> <<>>, completed |-> <<>>]

JsonBody(id, title, completed) == [wf |-> TRUE, id |-> id, title |-> title, completed |-> completed]

Bodies ==
    {MalformedBody,
     JsonBody(<<>>, <<>>, <<TRUE>>),
     JsonBody(<<>>, <<"">>, <<TRUE>>),
     JsonBody(<<"x">>, <<"a">>, <<TRUE>>),
     JsonBody(<<>>, <<" ">>, <<>>)}

\* The title and the completed flag a body asks for.
TitleIn(b) == IF b.title = <<>> THEN "" ELSE b.title[1]

CompletedIn(b) == b.completed = <<TRUE>>

\* json.NewDecoder(r.Body).Decode(&t) into a zero-valued todo: an absent
\* field keeps its zero value.
Decode(body) ==
    [err |-> ~body.wf,
     t |-> [ID |-> IF body.id = <<>> THEN "" ELSE body.id[1],
            Title |-> IF body.title = <<>> THEN "" ELSE body.title[1],
            Completed |-> IF body.completed = <<>> THEN FALSE ELSE body.completed[1]]]

\* ------------------------------------------------------------- collection

\* The collection is the sequence of its documents (todoModel) in natural
\* order.  Every store call below is atomic on it.

HasId(coll, oid) == \E i \in 1..Len(coll) : coll[i].ID = oid

FirstMatch(coll, oid) == CHOOSE i \in 1..Len(coll) : coll[i].ID = oid /\ \A j \in 1..(i - 1) : coll[j].ID # oid

\* A variant that takes completed from the request.
NewTodoModelKeepsCompleted(t, oid, clock) ==
    [ID |-> oid, Title |-> t.Title, Completed |-> t.Completed, CreatedAt |-> clock]

\* todoModel{ID: primitive.NewObjectID(), Title: t.Title, Completed: false,
\*           CreatedAt: time.Now()}
NewTodoModel(t, oid, clock) ==
    [ID |-> oid, Title |-> t.Title, Completed |-> FALSE, CreatedAt |-> clock]

\* collection.InsertOne(ctx, tm): _id is unique in a collection.
InsertOne(coll, tm) ==
    IF HasId(coll, tm.ID)
    THEN [err |-> TRUE, coll |-> coll]
    ELSE [err |-> FALSE, coll |-> Append(coll, tm)]

\* A variant that inserts when no document matches.
UpdateOneUpsert(coll, oid, title, completed) ==
    IF HasId(coll, oid)
    THEN [coll EXCEPT ![FirstMatch(coll, oid)].Title = title,
                      ![FirstMatch(coll, oid)].Completed = completed]
    ELSE Append(coll, [ID |-> oid, Title |-> title, Completed |-> completed, CreatedAt |-> 0])

\* A variant that sets the title alone.
UpdateOneTitleOnly(coll, oid, title, completed) ==
    IF HasId(coll, oid)
    THEN [coll EXCEPT ![FirstMatch(coll, oid)].Title = title]
    ELSE coll

\* collection.UpdateOne(ctx, {"_id": objID}, {"$set": {"title", "completed"}}):
\* the first matching document gets the two fields; none matching changes nothing.
UpdateOne(coll, oid, title, completed) ==
    IF HasId(coll, oid)
    THEN [coll EXCEPT ![FirstMatch(coll, oid)].Title = title,
                      ![FirstMatch(coll, oid)].Completed = completed]
    ELSE coll

\* A variant that blanks the document instead of removing it.
DeleteOneSoft(coll, oid) ==
    IF HasId(coll, oid)
    THEN [coll EXCEPT ![FirstMatch(coll, oid)].Title = ""]
    ELSE coll

\* collection.DeleteOne(ctx, {"_id": objID}): removes the first matching document.
DeleteOne(coll, oid) ==
    IF HasId(coll, oid)
    THEN SubSeq(coll, 1, FirstMatch(coll, oid) - 1)
           \o SubSeq(coll, FirstMatch(coll, oid) + 1, Len(coll))
    ELSE coll

\* A variant that leaves completed at its zero value.
ToWireDropsCompleted(tm) ==
    [ID |-> Hex(tm.ID), Title |-> tm.Title, Completed |-> FALSE, CreatedAt |-> tm.CreatedAt]

\* fetchTodos' loop: each todoModel becomes a todo with the id in hex.
ToWire(tm) ==
    [ID |-> Hex(tm.ID), Title |-> tm.Title, Completed |-> tm.Completed, CreatedAt |-> tm.CreatedAt]

TodoList(todos) == [i \in 1..Len(todos) |-> ToWire(todos[i])]

\* ------------------------------------------------------------------ state

VARIABLES
    proc,        \* where the main goroutine is: "init", "main", "setup",
                 \* "wait", "drain", "exited"
    exitCause,   \* why the process ended: "none", "startup", "sigint",
                 \* "shutdown", "handler"
    srv,         \* the http.Server: "off", "listening", "closed"
    grace,       \* the shutdown context: "unset", "running", "expired" (after 5 s)
    now,         \* the clock: the instant the next time.Now() returns
    oidCount,    \* ObjectIDs generated so far
    store,       \* the collection
    slots,       \* the handler goroutines
    sigSeen,     \* history: the process has been sent an interrupt
    expected,    \* history: what the clients were told and asked, per ObjectID
    lastWriter,  \* history: the goroutine whose UpdateOne was applied last, per ObjectID
    deleted      \* history: the ObjectIDs whose document a DeleteOne removed

vars == <<proc, exitCause, srv, grace, now, oidCount, store, slots, sigSeen, expected,
         lastWriter, deleted>>

Slots == 1..MaxInflight

IdleSlot ==
    [op |-> "none", pc |-> "idle", objID |-> 0, title |-> "", completed |-> FALSE,
     createdAt |-> 0, status |-> 0, err |-> FALSE, matched |-> FALSE,
     todoId |-> <<>>, data |-> <<>>,
     path |-> <<>>, body |-> MalformedBody]

NoWire == [ID |-> <<>>, Title |-> "", Completed |-> FALSE, CreatedAt |-> 0]

Init ==
    /\ proc = "init"
    /\ exitCause = "none"
    /\ srv = "off"
    /\ grace = "unset"
    /\ now = 0
    /\ oidCount = 0
    /\ store = <<>>
    /\ slots = [s \in Slots |-> IdleSlot]
    /\ sigSeen = FALSE
    /\ expected = [o \in Oids |-> NoWire]
    /\ lastWriter = [o \in Oids |-> 0]
    /\ deleted = {}

Alive == proc # "exited"

procVars == <<proc, exitCause, srv, grace, sigSeen>>
dataVars == <<oidCount, store, slots, expected, lastWriter, deleted>>

\* ------------------------------------------------------------ the process

\* The process ends (os.Exit in log.Fatal, the default disposition of a
\* signal, main returning): the listener closes and every goroutine ends
\* where it stands; the collection stays as it is.
Exit(cause) ==
    /\ proc' = "exited"
    /\ exitCause' = cause
    /\ srv' = IF srv = "listening" THEN "closed" ELSE srv
    /\ grace' = "unset"
    /\ slots' = [s \in Slots |-> IdleSlot]
    /\ lastWriter' = [o \in Oids |-> 0]
    /\ UNCHANGED <<now, oidCount, store, expected, deleted>>

\* log.Fatal(err)
Fatal(cause) == Exit(cause)

\* checkErr(err)
checkErr(err, cause, rest) ==
    IF err THEN Fatal(cause) ELSE rest

\* init(): connect to and ping the store; a failure of either is fatal.
InitDb ==
    /\ proc = "init"
    /\ \E err \in BOOLEAN :
         checkErr(err, "startup",
                  /\ proc' = "main"
                  /\ UNCHANGED <<exitCause, srv, grace, now>>
                  /\ UNCHANGED dataVars)
    /\ UNCHANGED sigSeen

\* main: stopChan := make(chan os.Signal); signal.Notify(stopChan, os.Interrupt)
Notify ==
    /\ proc = "main"
    /\ proc' = "setup"
    /\ UNCHANGED <<exitCause, srv, grace, now, sigSeen>>
    /\ UNCHANGED dataVars

\* main: the router, the server, go func() { srv.ListenAndServe() }(), and
\* main blocks in <-stopChan.
Spawn ==
    /\ proc = "setup"
    /\ proc' = "wait"
    /\ UNCHANGED <<exitCause, srv, grace, now, sigSeen>>
    /\ UNCHANGED dataVars

\* The server goroutine: srv.ListenAndServe() starts to accept, or returns
\* at once when Shutdown has already been called.
Listen ==
    /\ proc \in {"wait", "drain"}
    /\ srv = "off"
    /\ srv' = IF proc = "drain" THEN "closed" ELSE "listening"
    /\ UNCHANGED <<proc, exitCause, grace, now, sigSeen>>
    /\ UNCHANGED dataVars

\* The process is sent os.Interrupt.  Before signal.Notify the default
\* disposition ends the process.  After it, the runtime offers the signal to
\* the unbuffered stopChan without blocking: main takes it only when it is
\* blocked in <-stopChan, and then calls srv.Shutdown(ctx) with the 5 s
\* context, which closes the listener; otherwise the signal is dropped.
Interrupt ==
    /\ Alive
    /\ sigSeen' = TRUE
    /\ CASE proc \in {"init", "main"} ->
              Exit("sigint")
         [] proc = "wait" ->
              /\ proc' = "drain"
              /\ srv' = "closed"
              /\ grace' = "running"
              /\ UNCHANGED <<exitCause, now>>
              /\ UNCHANGED dataVars
         [] OTHER ->
              /\ UNCHANGED <<proc, exitCause, srv, grace, now>>
              /\ UNCHANGED dataVars

Inflight == {s \in Slots : slots[s].pc # "idle"}

\* The 5 s of the shutdown context pass while requests are in flight.
GraceExpires ==
    /\ proc = "drain"
    /\ Inflight # {}
    /\ grace = "running"
    /\ grace' = "expired"
    /\ UNCHANGED <<proc, exitCause, srv, now, sigSeen>>
    /\ UNCHANGED dataVars

\* srv.Shutdown(ctx) returns when no request is in flight or the context has
\* expired; main returns and the process ends, with it every goroutine.
ShutdownReturns ==
    /\ proc = "drain"
    /\ Inflight = {} \/ grace = "expired"
    /\ Exit("shutdown")
    /\ UNCHANGED sigSeen

\* ------------------------------------------------------------ the handlers

\* The server accepts a request and starts a handler goroutine for it, which
\* holds the {id} path parameter and the body as the client sent them.
Accept(s, op, path, body) ==
    /\ Alive
    /\ srv = "listening"
    /\ slots[s].pc = "idle"
    /\ slots' = [slots EXCEPT ![s] = [IdleSlot EXCEPT !.op = op, !.pc = "recv",
                                                      !.path = path, !.body = body]]
    /\ UNCHANGED <<oidCount, store, expected, lastWriter, deleted, now>>
    /\ UNCHANGED procVars

AcceptHome(s) == Accept(s, "home", <<>>, MalformedBody)
AcceptList(s) == Accept(s, "list", <<>>, MalformedBody)
AcceptCreate(s) == \E body \in Bodies : Accept(s, "create", <<>>, body)
AcceptUpdate(s) == \E path \in PathIds, body \in Bodies : Accept(s, "update", path, body)
AcceptDelete(s) == \E path \in PathIds : Accept(s, "delete", path, MalformedBody)

At(s, op, pc) == Alive /\ slots[s].op = op /\ slots[s].pc = pc

\* rnd.JSON(w, status, ...) is about to be called: the handler's answer.
\* err is the error the store call returned, if the handler made one.
Answer(s, status, err) ==
    slots' = [slots EXCEPT ![s].pc = "respond", ![s].status = status, ![s].err = err]

\* The same after UpdateOne or DeleteOne returned without error: matched is
\* the MatchedCount or DeletedCount of the result, which the handler discards.
AnswerOK(s, matched) ==
    slots' = [slots EXCEPT ![s].pc = "respond", ![s].status = StatusOK, ![s].matched = matched]

\* homeHandler: rnd.Template writes the page; checkErr(err) on its error.
homeHandler(s) ==
    /\ At(s, "home", "recv")
    /\ \E err \in BOOLEAN :
         checkErr(err, "handler",
                  /\ slots' = [slots EXCEPT ![s] = IdleSlot]
                  /\ UNCHANGED <<proc, exitCause, srv, grace, now>>
                  /\ UNCHANGED <<oidCount, store, expected, lastWriter, deleted>>)
    /\ UNCHANGED sigSeen

\* fetchTodos: Find, cursor.All, and the translation of every document.
fetchTodos(s) ==
    /\ At(s, "list", "recv")
    /\ \E findErr, decodeErr \in BOOLEAN :
         IF findErr \/ decodeErr
         THEN Answer(s, StatusInternalServerError, TRUE)
         ELSE slots' = [slots EXCEPT ![s].pc = "respond", ![s].status = StatusOK,
                                     ![s].data = TodoList(store)]
    /\ UNCHANGED <<oidCount, store, expected, lastWriter, deleted, now>>
    /\ UNCHANGED procVars

\* createTodo up to the store call: decode, validate, build the todoModel.
\* time.Now() reads the clock, which moves on.
createTodo(s) ==
    /\ At(s, "create", "recv")
    /\ LET d == Decode(slots[s].body)
           tm == NewTodoModel(d.t, NewObjectID(oidCount), now)
       IN  IF d.err \/ d.t.Title = ""
           THEN /\ Answer(s, StatusBadRequest, FALSE)
                /\ UNCHANGED <<oidCount, expected, now>>
           ELSE /\ oidCount < MaxCreates
                /\ oidCount' = oidCount + 1
                /\ now' = now + 1
                /\ slots' = [slots EXCEPT ![s].pc = "store", ![s].objID = tm.ID,
                                          ![s].title = tm.Title, ![s].completed = tm.Completed,
                                          ![s].createdAt = tm.CreatedAt]
                /\ expected' = [expected EXCEPT ![tm.ID] =
                                   [ID |-> <<>>, Title |-> TitleIn(slots[s].body),
                                    Completed |-> FALSE, CreatedAt |-> now]]
    /\ UNCHANGED <<store, lastWriter, deleted>>
    /\ UNCHANGED procVars

\* createTodo: collection.InsertOne and the answer.
createTodoInsert(s) ==
    /\ At(s, "create", "store")
    /\ \E storeErr \in BOOLEAN :
         LET tm == [ID |-> slots[s].objID, Title |-> slots[s].title,
                    Completed |-> slots[s].completed, CreatedAt |-> slots[s].createdAt]
             r == InsertOne(store, tm)
         IN  IF storeErr \/ r.err
             THEN /\ Answer(s, StatusInternalServerError, TRUE)
                  /\ store' = store
                  /\ expected' = [expected EXCEPT ![tm.ID] = NoWire]
             ELSE /\ store' = r.coll
                  /\ slots' = [slots EXCEPT ![s].pc = "respond", ![s].status = StatusCreated,
                                            ![s].todoId = Hex(tm.ID)]
                  /\ expected' = [expected EXCEPT ![tm.ID].ID = Hex(tm.ID)]
    /\ UNCHANGED <<oidCount, lastWriter, deleted, now>>
    /\ UNCHANGED procVars

\* A variant of updateTodo without the check of the title.
updateTodoSkipsTitleCheck(s) ==
    /\ At(s, "update", "recv")
    /\ LET id == ObjectIDFromHex(TrimSpace(slots[s].path))
           d == Decode(slots[s].body)
       IN  IF id.err \/ d.err
           THEN Answer(s, StatusBadRequest, FALSE)
           ELSE slots' = [slots EXCEPT ![s].pc = "store", ![s].objID = id.oid,
                                       ![s].title = d.t.Title, ![s].completed = d.t.Completed]
    /\ UNCHANGED <<oidCount, store, expected, lastWriter, deleted, now>>
    /\ UNCHANGED procVars

\* updateTodo up to the store call: the identifier, the body, the title.
updateTodo(s) ==
    /\ At(s, "update", "recv")
    /\ LET id == ObjectIDFromHex(TrimSpace(slots[s].path))
           d == Decode(slots[s].body)
       IN  IF id.err \/ d.err \/ d.t.Title = ""
           THEN Answer(s, StatusBadRequest, FALSE)
           ELSE slots' = [slots EXCEPT ![s].pc = "store", ![s].objID = id.oid,
                                       ![s].title = d.t.Title, ![s].completed = d.t.Completed]
    /\ UNCHANGED <<oidCount, store, expected, lastWriter, deleted, now>>
    /\ UNCHANGED procVars

\* updateTodo: collection.UpdateOne and the answer.
updateTodoUpdate(s) ==
    /\ At(s, "update", "store")
    /\ \E storeErr \in BOOLEAN :
         LET oid == slots[s].objID
         IN  IF storeErr
             THEN /\ Answer(s, StatusInternalServerError, TRUE)
                  /\ UNCHANGED <<store, expected, lastWriter>>
             ELSE /\ store' = UpdateOne(store, oid, slots[s].title, slots[s].completed)
                  /\ AnswerOK(s, HasId(store, oid))
                  /\ IF HasId(store, oid)
                     THEN /\ expected' = [expected EXCEPT ![oid].Title = TitleIn(slots[s].body),
                                                          ![oid].Completed = CompletedIn(slots[s].body)]
                          /\ lastWriter' = [lastWriter EXCEPT ![oid] = s]
                     ELSE UNCHANGED <<expected, lastWriter>>
    /\ UNCHANGED <<oidCount, deleted, now>>
    /\ UNCHANGED procVars

\* deleteTodo up to the store call: the identifier.
deleteTodo(s) ==
    /\ At(s, "delete", "recv")
    /\ LET id == ObjectIDFromHex(TrimSpace(slots[s].path))
       IN  IF id.err
           THEN Answer(s, StatusBadRequest, FALSE)
           ELSE slots' = [slots EXCEPT ![s].pc = "store", ![s].objID = id.oid]
    /\ UNCHANGED <<oidCount, store, expected, lastWriter, deleted, now>>
    /\ UNCHANGED procVars

\* deleteTodo: collection.DeleteOne and the answer.
deleteTodoDelete(s) ==
    /\ At(s, "delete", "store")
    /\ \E storeErr \in BOOLEAN :
         LET oid == slots[s].objID
         IN  IF storeErr
             THEN /\ Answer(s, StatusInternalServerError, TRUE)
                  /\ UNCHANGED <<store, expected, lastWriter, deleted>>
             ELSE /\ store' = DeleteOne(store, oid)
                  /\ AnswerOK(s, HasId(store, oid))
                  /\ IF HasId(store, oid)
                     THEN /\ expected' = [expected EXCEPT ![oid] = NoWire]
                          /\ lastWriter' = [lastWriter EXCEPT ![oid] = 0]
                          /\ deleted' = deleted \cup {oid}
                     ELSE UNCHANGED <<expected, lastWriter, deleted>>
    /\ UNCHANGED <<oidCount, now>>
    /\ UNCHANGED procVars

\* rnd.JSON writes the answer and the handler returns.
Respond(s) ==
    /\ Alive
    /\ slots[s].pc = "respond"
    /\ slots' = [slots EXCEPT ![s] = IdleSlot]
    /\ lastWriter' = [o \in Oids |-> IF lastWriter[o] = s THEN 0 ELSE lastWriter[o]]
    /\ UNCHANGED <<oidCount, store, expected, deleted, now>>
    /\ UNCHANGED procVars

\* ------------------------------------------------------- the specification

Next ==
    \/ InitDb
    \/ Notify
    \/ Spawn
    \/ Listen
    \/ Interrupt
    \/ GraceExpires
    \/ ShutdownReturns
    \/ \E s \in Slots : AcceptHome(s)
    \/ \E s \in Slots : AcceptList(s)
    \/ \E s \in Slots : AcceptCreate(s)
    \/ \E s \in Slots : AcceptUpdate(s)
    \/ \E s \in Slots : AcceptDelete(s)
    \/ \E s \in Slots : homeHandler(s)
    \/ \E s \in Slots : fetchTodos(s)
    \/ \E s \in Slots : createTodo(s)
    \/ \E s \in Slots : createTodoInsert(s)
    \/ \E s \in Slots : updateTodo(s)
    \/ \E s \in Slots : updateTodoUpdate(s)
    \/ \E s \in Slots : deleteTodo(s)
    \/ \E s \in Slots : deleteTodoDelete(s)
    \/ \E s \in Slots : Respond(s)

Spec == Init /\ [][Next]_vars

\* ------------------------------------------------------------- the claims

\* What a list request answered now would return.
Listing == TodoList(store)

\* The forms in which a client can name ObjectID oid in a path.
IdForms(oid) == {Hex(oid), Upper(Hex(oid)), Padded(oid)}

\* A body that decodes and has a non-empty title, and the values it carries.
ValidBody(b) == b.wf /\ b.title # <<>> /\ b.title[1] # ""

\* Handler s of kind op takes its validation step, and its store call.
Validates(s, op) ==
    slots[s].op = op /\ slots[s].pc = "recv" /\ slots'[s].pc \in {"store", "respond"}

Calls(s, op) ==
    slots[s].op = op /\ slots[s].pc = "store" /\ slots'[s].pc = "respond"

\* A valid create request goes on to the store call with the supplied title
\* and the time of creation.
CreateProceeds(s) ==
    (Validates(s, "create") /\ ValidBody(slots[s].body))
       => /\ slots'[s].pc = "store"
          /\ slots'[s].title = TitleIn(slots[s].body)
          /\ slots'[s].createdAt = now

\* The outcome C1 describes for the store call of a create handler.
Created(s) ==
    /\ slots'[s].status = StatusCreated
    /\ slots'[s].todoId # <<>>
    /\ \A i \in 1..Len(Listing) : Listing[i].ID # slots'[s].todoId
    /\ Len(store') = Len(store) + 1
    /\ SubSeq(store', 1, Len(store)) = store
    /\ LET new == store'[Len(store')]
       IN  /\ Hex(new.ID) = slots'[s].todoId
           /\ new.Title = TitleIn(slots[s].body)
           /\ new.Completed = FALSE
           /\ new.CreatedAt = slots[s].createdAt
    /\ \E i \in 1..Len(Listing') :
          Listing'[i].ID = slots'[s].todoId /\ Listing'[i].Completed = FALSE

\* C1 as stated: every create request whose body decodes and whose title is
\* non-empty is answered 201 with a fresh non-empty identifier, adds exactly
\* one record (that identifier, the supplied title, completed = false,
\* createdAt = the time of creation), leaves every other record unchanged,
\* and a subsequent list shows the identifier with completed = false.
C1_CreateAlwaysCreated ==
    [][\A s \in Slots :
          /\ CreateProceeds(s)
          /\ Calls(s, "create") => Created(s)]_vars

\* C1 amended: the same whenever InsertOne returns no error; when it
\* returns an error the answer is 500.
C1_CreateCreatedUnlessStoreFails ==
    [][\A s \in Slots :
          /\ CreateProceeds(s)
          /\ Calls(s, "create") =>
                IF slots'[s].err
                THEN slots'[s].status = StatusInternalServerError
                ELSE Created(s)]_vars

\* C1's case: a create whose body carried completed = true and an id has been
\* answered 201 next to an older record.
C1_Witness ==
    \E s \in Slots :
       /\ slots[s].op = "create" /\ slots[s].pc = "respond"
       /\ slots[s].status = StatusCreated
       /\ slots[s].body.completed = <<TRUE>> /\ slots[s].body.id # <<>>
       /\ Len(store) = 2

\* A valid update request goes on to the store call with the named
\* identifier and the values of the body.
UpdateProceeds(s) ==
    \A o \in Oids :
       (Validates(s, "update") /\ slots[s].path \in IdForms(o) /\ ValidBody(slots[s].body))
          => /\ slots'[s].pc = "store"
             /\ slots'[s].objID = o
             /\ slots'[s].title = TitleIn(slots[s].body)
             /\ slots'[s].completed = CompletedIn(slots[s].body)

\* The outcome C2 describes for the store call of an update of a stored record.
Updated(s) ==
    /\ slots'[s].status = StatusOK
    /\ Len(store') = Len(store)
    /\ \A i \in 1..Len(store) :
          IF store[i].ID = slots[s].objID
          THEN store'[i] = [ID |-> store[i].ID, Title |-> TitleIn(slots[s].body),
                            Completed |-> CompletedIn(slots[s].body),
                            CreatedAt |-> store[i].CreatedAt]
          ELSE store'[i] = store[i]

\* C2 as stated: every update with a valid identifier of an existing record,
\* a decodable body and a non-empty title is answered 200, sets the record's
\* title and completed to the values of the body, and changes neither its id,
\* its createdAt nor any other record.
C2_UpdateAlwaysUpdated ==
    [][\A s \in Slots :
          /\ UpdateProceeds(s)
          /\ (Calls(s, "update") /\ HasId(store, slots[s].objID)) => Updated(s)]_vars

\* C2 amended: the same whenever UpdateOne returns no error; when it
\* returns an error the answer is 500.
C2_UpdateUpdatedUnlessStoreFails ==
    [][\A s \in Slots :
          /\ UpdateProceeds(s)
          /\ (Calls(s, "update") /\ HasId(store, slots[s].objID)) =>
                IF slots'[s].err
                THEN slots'[s].status = StatusInternalServerError
                ELSE Updated(s)]_vars

\* C2's case: an update that changed both fields of one of two stored records
\* has been answered 200.
C2_Witness ==
    \E s \in Slots :
       /\ slots[s].op = "update" /\ slots[s].pc = "respond"
       /\ slots[s].status = StatusOK /\ slots[s].matched
       /\ Len(store) = 2
       /\ \E i \in 1..2 : /\ store[i].ID = slots[s].objID
                          /\ store[i].Completed
                          /\ store[i].Title = TitleIn(slots[s].body)
                          /\ expected[store[i].ID].CreatedAt = store[i].CreatedAt

\* A delete request with a valid identifier goes on to the store call.
DeleteProceeds(s) ==
    \A o \in Oids :
       (Validates(s, "delete") /\ slots[s].path \in IdForms(o))
          => slots'[s].pc = "store" /\ slots'[s].objID = o

Without(coll, oid) == SelectSeq(coll, LAMBDA d : d.ID # oid)

\* The store call of a delete of a record that is stored, or that an earlier
\* delete removed.
DeletesKnown(s) ==
    Calls(s, "delete") /\ (HasId(store, slots[s].objID) \/ slots[s].objID \in deleted)

\* The outcome C3 describes for it: the record is gone, nothing else is; a
\* repeated delete changes nothing.
Deleted(s) ==
    /\ slots'[s].status = StatusOK
    /\ store' = Without(store, slots[s].objID)
    /\ Len(store') >= Len(store) - 1
    /\ \A i \in 1..Len(Listing') : Listing'[i].ID # Hex(slots[s].objID)
    /\ slots[s].objID \in deleted => store' = store

\* C3 as stated: deleting a valid identifier of an existing record is
\* answered 200 and removes exactly that record; deleting it again is
\* answered 200 too and leaves the store as the first delete left it.
C3_DeleteAlwaysDeleted ==
    [][\A s \in Slots :
          /\ DeleteProceeds(s)
          /\ DeletesKnown(s) => Deleted(s)]_vars

\* C3 amended: the same whenever DeleteOne returns no error; when it
\* returns an error the answer is 500.
C3_DeleteDeletedUnlessStoreFails ==
    [][\A s \in Slots :
          /\ DeleteProceeds(s)
          /\ DeletesKnown(s) =>
                IF slots'[s].err
                THEN slots'[s].status = StatusInternalServerError
                ELSE Deleted(s)]_vars

\* C3's case: two deletes of the same identifier have both been answered 200,
\* the first removed the record and the second found none, another record stays.
C3_Witness ==
    \E s1, s2 \in Slots :
       /\ s1 # s2
       /\ slots[s1].op = "delete" /\ slots[s1].pc = "respond" /\ slots[s1].status = StatusOK
       /\ slots[s2].op = "delete" /\ slots[s2].pc = "respond" /\ slots[s2].status = StatusOK
       /\ slots[s1].objID = slots[s2].objID
       /\ slots[s1].matched /\ ~slots[s2].matched
       /\ slots[s1].objID \in deleted
       /\ Len(store) = 1

\* The outcome C4 describes for a store call that matches no record.
NoOp(s) == slots'[s].status = StatusOK /\ store' = store

Misses(s) ==
    (Calls(s, "update") \/ Calls(s, "delete")) /\ ~HasId(store, slots[s].objID)

\* C4 as stated: a delete or a valid update of a syntactically valid
\* identifier that matches no stored record is answered 200 and leaves the
\* store as it was.
C4_MissAlwaysNoOp ==
    [][\A s \in Slots :
          /\ UpdateProceeds(s)
          /\ DeleteProceeds(s)
          /\ Misses(s) => NoOp(s)]_vars

\* C4 amended: the same whenever the store call returns no error; when it
\* returns an error the answer is 500.
C4_MissNoOpUnlessStoreFails ==
    [][\A s \in Slots :
          /\ UpdateProceeds(s)
          /\ DeleteProceeds(s)
          /\ Misses(s) =>
                IF slots'[s].err
                THEN slots'[s].status = StatusInternalServerError
                ELSE NoOp(s)]_vars

\* C4's case: an update of an identifier that matched no record has been
\* answered 200 while the store holds another record.
C4_Witness ==
    \E s \in Slots :
       /\ slots[s].op = "update" /\ slots[s].pc = "respond"
       /\ slots[s].status = StatusOK /\ ~slots[s].matched
       /\ ~HasId(store, slots[s].objID)
       /\ Len(store) = 1

\* The client input errors: a body that is no JSON or whose title is absent
\* or empty (create, update), a path that is no identifier (update, delete).
BadPath(path) == path \notin UNION {IdForms(o) : o \in Oids}

InputError(r) ==
    \/ r.op \in {"create", "update"} /\ ~ValidBody(r.body)
    \/ r.op \in {"update", "delete"} /\ BadPath(r.path)

\* C5: a create with an empty or absent title, an update with an empty title
\* (also of a stored record), and an update or delete whose identifier does
\* not parse, whatever the body, are answered 400 and leave the store as it was.
C5_InputErrorRejected ==
    [][\A s \in Slots :
          (slots[s].pc = "recv" /\ slots'[s].pc \in {"store", "respond"} /\ InputError(slots[s]))
             => /\ slots'[s].pc = "respond"
                /\ slots'[s].status = StatusBadRequest
                /\ store' = store]_vars

\* C5's case: an update of a stored record with an empty title has been
\* answered 400, and so has a delete whose identifier does not parse.
C5_Witness ==
    \E s1, s2 \in Slots :
       /\ slots[s1].op = "update" /\ slots[s1].pc = "respond"
       /\ slots[s1].status = StatusBadRequest
       /\ slots[s1].body.title = <<"">>
       /\ \E i \in 1..Len(store) : slots[s1].path = Hex(store[i].ID)
       /\ slots[s2].op = "delete" /\ slots[s2].pc = "respond"
       /\ slots[s2].status = StatusBadRequest
       /\ slots[s2].path = TooShort

\* The tasks the clients know to be stored: created (the identifier was
\* returned by a successful insert) and not deleted since.  expected[o] is
\* what they were told and what they asked for: the identifier returned at
\* creation, the time of creation, completed = false and the title supplied,
\* the last two replaced by the values of the most recent update applied.
Known == {o \in Oids : expected[o].ID # <<>>}

\* Handler s of fetchTodos answers 200 in this step.
Lists(s) ==
    /\ slots[s].op = "list" /\ slots[s].pc = "recv"
    /\ slots'[s].pc = "respond" /\ slots'[s].status = StatusOK

\* C6: a list returns exactly one entry for every task created and not
\* deleted, with the id and createdAt of its creation and the title and
\* completed of its creation or of its most recent successful update; it
\* returns every stored task and nothing else, and does not change the store.
C6_ListRoundTrip ==
    [][\A s \in Slots :
          Lists(s) =>
             LET data == slots'[s].data
             IN  /\ Len(data) = Cardinality(Known)
                 /\ \A o \in Known :
                       \E i \in 1..Len(data) :
                          /\ data[i] = expected[o]
                          /\ \A j \in 1..Len(data) : data[j].ID = data[i].ID => j = i
                 /\ Len(data) = Len(store)
                 /\ \A i \in 1..Len(store) :
                       \E j \in 1..Len(data) : data[j].ID = Hex(store[i].ID)
                 /\ store' = store]_vars

\* C6's case: a list has returned two tasks, one as created and one with the
\* title and completed of a later update.
C6_Witness ==
    \E s \in Slots :
       /\ slots[s].op = "list" /\ slots[s].pc = "respond" /\ slots[s].status = StatusOK
       /\ Len(slots[s].data) = 2
       /\ \E i, j \in 1..2 :
             /\ slots[s].data[i].Completed /\ slots[s].data[i].Title = "a"
             /\ ~slots[s].data[j].Completed
             /\ slots[s].data[i].CreatedAt # slots[s].data[j].CreatedAt

\* C7: every stored task has a non-empty title.
C7_TitleNeverEmpty == \A i \in 1..Len(store) : store[i].Title # ""

\* C7's case: records are stored, one of them updated, and a create and an
\* update with an empty title have been turned down.
C7_Witness ==
    /\ Len(store) = 2
    /\ \E i \in 1..2 : store[i].Completed
    /\ \E s1, s2 \in Slots :
          /\ slots[s1].op = "create" /\ slots[s1].pc = "respond"
          /\ slots[s1].body.title = <<"">>
          /\ slots[s2].op = "update" /\ slots[s2].pc = "respond"
          /\ slots[s2].body.title = <<"">>
          /\ \E i \in 1..2 : slots[s2].path = Hex(store[i].ID)

\* Two update handlers that have made their store call for the same
\* identifier, with valid requests, while its record is stored.
BothUpdated(s1, s2, i) ==
    /\ s1 # s2
    /\ slots[s1].op = "update" /\ slots[s1].pc = "respond"
    /\ slots[s2].op = "update" /\ slots[s2].pc = "respond"
    /\ slots[s1].status # StatusBadRequest /\ slots[s2].status # StatusBadRequest
    /\ slots[s1].objID = store[i].ID /\ slots[s2].objID = store[i].ID

\* The record carries the values of the request whose write was applied
\* last, and the id and createdAt of its creation.
LastWriteWins(s1, s2, i) ==
    /\ lastWriter[store[i].ID] \in {s1, s2} =>
          LET w == slots[lastWriter[store[i].ID]]
          IN  /\ store[i].Title = TitleIn(w.body)
              /\ store[i].Completed = CompletedIn(w.body)
    /\ Hex(store[i].ID) = expected[store[i].ID].ID
    /\ store[i].CreatedAt = expected[store[i].ID].CreatedAt

\* C8 as stated: two concurrent valid updates of the same existing identifier
\* are both answered 200, and the record ends with the title and completed
\* of the one whose write was applied last, never a mix, id and createdAt
\* unchanged.
C8_ConcurrentUpdatesBoth200 ==
    \A s1, s2 \in Slots : \A i \in 1..Len(store) :
       BothUpdated(s1, s2, i) =>
          /\ slots[s1].status = StatusOK /\ slots[s2].status = StatusOK
          /\ LastWriteWins(s1, s2, i)

\* C8 amended: each of the two is answered 200 unless its UpdateOne returned
\* an error, and then 500; the record carries the values of the one whose
\* write was applied last.
C8_ConcurrentUpdatesLastWriteWins ==
    \A s1, s2 \in Slots : \A i \in 1..Len(store) :
       BothUpdated(s1, s2, i) =>
          /\ \A s \in {s1, s2} :
                slots[s].status = IF slots[s].err THEN StatusInternalServerError ELSE StatusOK
          /\ LastWriteWins(s1, s2, i)

\* C8's case: two updates of one stored record, differing in title and in
\* completed, have both been applied and answered 200.
C8_Witness ==
    \E s1, s2 \in Slots : \E i \in 1..Len(store) :
       /\ BothUpdated(s1, s2, i)
       /\ slots[s1].matched /\ slots[s2].matched
       /\ slots[s1].title # slots[s2].title
       /\ slots[s1].completed # slots[s2].completed
       /\ lastWriter[store[i].ID] = s1

\* C9 as stated, its safety part: once the process has been sent an
\* interrupt it accepts no new request, and the process ending rolls back no
\* store write.
C9_NoAcceptAfterInterrupt ==
    [][/\ sigSeen => \A s \in Slots : slots[s].pc = "idle" => slots'[s].pc = "idle"
       /\ (proc # "exited" /\ proc' = "exited") => store' = store]_vars

\* C10 as stated: an error raised while a handler handles a request becomes
\* that request's answer, and none ends the process.
C10_HandlerErrorNeverFatal ==
    /\ \A s \in Slots :
          (slots[s].pc = "respond" /\ slots[s].err) => slots[s].status = StatusInternalServerError
    /\ exitCause # "handler"

\* An update handler s1 and a delete handler s2 are in flight together, both
\* past validation, for ObjectID o, whose record is stored or was removed by
\* a DeleteOne.
Racing(s1, s2, o) ==
    /\ slots[s1].op = "update" /\ slots[s2].op = "delete"
    /\ \A s \in {s1, s2} : slots[s].objID = o /\ slots[s].pc \in {"store", "respond"}
    /\ HasId(store, o) \/ o \in deleted

\* The outcome C11 describes for the update's store call: 200, no record
\* added or removed (none re-created when the delete was applied first), no
\* record but o's changed.
UpdatedInRace(s1, o) ==
    /\ slots'[s1].status = StatusOK
    /\ Len(store') = Len(store)
    /\ Without(store', o) = Without(store, o)
    /\ ~HasId(store, o) => store' = store

\* The outcome C11 describes for the delete's store call: 200, o's record
\* gone and no other.
DeletedInRace(s2, o) ==
    /\ slots'[s2].status = StatusOK
    /\ store' = Without(store, o)

\* Both have made their store call, the delete's removed the record: no
\* record of o is stored.
GoneAfterBoth(s1, s2, o) ==
    (slots'[s1].pc = "respond" /\ slots'[s2].pc = "respond" /\ slots'[s2].matched)
       => ~HasId(store', o)

\* C11 as stated: when a valid update and a delete of the same existing
\* identifier run concurrently, both are answered 200 in every interleaving,
\* no record of that identifier is stored once both have completed, an update
\* applied after the delete does not re-create it, and no other record changes.
C11_UpdateDeleteBoth200 ==
    [][\A s1, s2 \in Slots : \A o \in Oids :
          Racing(s1, s2, o) =>
             /\ Calls(s1, "update") => UpdatedInRace(s1, o)
             /\ Calls(s2, "delete") => DeletedInRace(s2, o)
             /\ GoneAfterBoth(s1, s2, o)]_vars

\* C11 amended: each of the two is answered 200 unless its store call
\* returned an error, and then 500; once both have completed and the delete
\* was applied, no record of the identifier is stored, the update did not
\* re-create it, and no other record changed.
C11_UpdateDeleteUnlessStoreFails ==
    [][\A s1, s2 \in Slots : \A o \in Oids :
          Racing(s1, s2, o) =>
             /\ Calls(s1, "update") =>
                   IF slots'[s1].err
                   THEN slots'[s1].status = StatusInternalServerError
                   ELSE UpdatedInRace(s1, o)
             /\ Calls(s2, "delete") =>
                   IF slots'[s2].err
                   THEN slots'[s2].status = StatusInternalServerError
                   ELSE DeletedInRace(s2, o)
             /\ GoneAfterBoth(s1, s2, o)]_vars

\* C11's case: a delete removed a record and an update of the same identifier,
\* applied after it, matched nothing; both have been answered 200, the record
\* is not stored and another one is.
C11_Witness ==
    \E s1, s2 \in Slots :
       /\ slots[s1].op = "update" /\ slots[s1].pc = "respond" /\ slots[s1].status = StatusOK
       /\ slots[s2].op = "delete" /\ slots[s2].pc = "respond" /\ slots[s2].status = StatusOK
       /\ slots[s1].objID = slots[s2].objID
       /\ slots[s2].matched /\ ~slots[s1].matched
       /\ slots[s1].objID \in deleted
       /\ ~HasId(store, slots[s1].objID)
       /\ Len(store) = 1

====
